---- MODULE Spec2Model ----
(***************************************************************************)
(* Verification model of bellows: the typed binary record catalog of       *)
(* bellows/types/struct.py with its encode/decode engine, and the command  *)
(* line helpers of bellows/cli/util.py (channel_mask, the node address     *)
(* parameter type, parse_epan and the app() command wrapper).              *)
(***************************************************************************)
EXTENDS Integers, Sequences, FiniteSets, TLC

VARIABLES
    phase,      \* codec: "idle", "encoded", "received", "decoded"
    rtype,      \* codec: name of the record type being encoded / expected by decode
    value,      \* codec: the record value handed to encode (None when a raw buffer arrived)
    encoding,   \* codec: the bytes encode produced for value
    wire,       \* codec: the buffer handed to decode
    decoded,    \* codec: the result of decode
    channels,   \* channel_mask: the argument
    maskResult, \* channel_mask: the return value or the exception raised
    text,       \* address / extended PAN ID text typed by the user
    edits,      \* number of edits applied to the canonical text
    nodeResult, \* ZigbeeNodeParamType.convert: result
    epanResult, \* parse_epan: result
    pc,         \* app(): position of the wrapper inner()
    application,\* app(): the nonlocal application of the closure: the number of the
                \* call of inner() that created it, 0 while it is None
    pending,    \* app(): the exception in flight, or NoExc
    outcome,    \* app(): what inner() handed to its caller
    trace,      \* app(): the steps inner() has taken in this call
    runs,       \* app(): number of calls of inner() started
    tcPc,       \* policy helpers: "idle", "await" (a request awaits its reply), "done", "raised"
    helper,     \* policy helpers: the helper running or last run
    step,       \* basic_tc_permits: number of set_policy calls started in this call
    frames,     \* policy helpers: every request sent to the NCP, with the reply received
    tcOutcome,  \* policy helpers: how the last call of a helper ended
    calls       \* policy helpers: number of calls of a helper started

codecVars == <<phase, rtype, value, encoding, wire, decoded>>
maskVars == <<channels, maskResult>>
textVars == <<text, edits, nodeResult, epanResult>>
appVars == <<pc, application, pending, outcome, trace, runs>>
tcVars == <<tcPc, helper, step, frames, tcOutcome, calls>>
vars == <<codecVars, maskVars, textVars, appVars, tcVars>>

None == "None"

(***************************************************************************)
(* Bounds of the model.                                                    *)
(***************************************************************************)
\* number of value patterns every field is sampled with
NumPatterns == 3
\* longest raw buffer handed to decode (the longest record takes 43 bytes)
MaxBuf == 45
\* number of trailing bytes that may follow an encoded record in the buffer
MaxTrail == 2

(***************************************************************************)
(* Field types: bellows.types.basic and bellows.types.named.  A field type *)
(* is a record [kind, width] (integers, enumerations, bitmasks, booleans), *)
(* [kind, len, elem] (fixed arrays) or [kind, name] (a nested record).     *)
(***************************************************************************)
UInt(w) == [kind |-> "uint", width |-> w]
ValueEnum(w) == [kind |-> "enum", width |-> w]
BitmaskEnum(w) == [kind |-> "bitmask", width |-> w]
Composite(n) == [kind |-> "struct", name |-> n]
fixed_list(n, t) == [kind |-> "array", len |-> n, elem |-> t]

uint8_t == UInt(1)
uint16_t == UInt(2)
uint32_t == UInt(4)
Bool == [kind |-> "bool", width |-> 1]
ExtendedPanId == fixed_list(8, uint8_t)
EmberEUI64 == fixed_list(8, uint8_t)
EmberKeyData == fixed_list(16, uint8_t)
EmberPanId == UInt(2)
EmberNodeId == UInt(2)
EmberMulticastId == UInt(2)
Channels == BitmaskEnum(4)
EmberApsOption == BitmaskEnum(2)
EmberInitialSecurityBitmask == BitmaskEnum(2)
EmberCurrentSecurityBitmask == BitmaskEnum(2)
EmberZllState == BitmaskEnum(2)
EmberJoinMethod == ValueEnum(1)
EmberBindingType == ValueEnum(1)
EmberNodeType == ValueEnum(1)
EmberZllKeyIndex == ValueEnum(1)
NV3KeyId == ValueEnum(4)

Field(n, t) == [name |-> n, type |-> t]

(***************************************************************************)
(* The record catalog: bellows/types/struct.py, fields in declaration      *)
(* order.                                                                  *)
(***************************************************************************)
EmberNetworkParameters ==
    << Field("extendedPanId", ExtendedPanId), Field("panId", EmberPanId),
       Field("radioTxPower", uint8_t), Field("radioChannel", uint8_t),
       Field("joinMethod", EmberJoinMethod), Field("nwkManagerId", EmberNodeId),
       Field("nwkUpdateId", uint8_t), Field("channels", Channels) >>

EmberZigbeeNetwork ==
    << Field("channel", uint8_t), Field("panId", EmberPanId),
       Field("extendedPanId", ExtendedPanId), Field("allowingJoin", Bool),
       Field("stackProfile", uint8_t), Field("nwkUpdateId", uint8_t) >>

\* (mutant of EmberApsFrame: profileId and clusterId declared in the other order)
EmberApsFrame_Swapped ==
    << Field("clusterId", uint16_t), Field("profileId", uint16_t),
       Field("sourceEndpoint", uint8_t), Field("destinationEndpoint", uint8_t),
       Field("options", EmberApsOption), Field("groupId", uint16_t),
       Field("sequence", uint8_t) >>

EmberApsFrame ==
    << Field("profileId", uint16_t), Field("clusterId", uint16_t),
       Field("sourceEndpoint", uint8_t), Field("destinationEndpoint", uint8_t),
       Field("options", EmberApsOption), Field("groupId", uint16_t),
       Field("sequence", uint8_t) >>

EmberBindingTableEntry ==
    << Field("type", EmberBindingType), Field("local", uint8_t),
       Field("clusterId", uint16_t), Field("remote", uint8_t),
       Field("identifier", EmberEUI64), Field("networkIndex", uint8_t) >>

EmberMulticastTableEntry ==
    << Field("multicastId", EmberMulticastId), Field("endpoint", uint8_t),
       Field("networkIndex", uint8_t) >>

\* (mutant of EmberTransientKeyData: the last field is not declared)
EmberTransientKeyData_Short ==
    << Field("eui64", EmberEUI64), Field("keyData", EmberKeyData),
       Field("incomingFrameCounter", uint32_t) >>

EmberTransientKeyData ==
    << Field("eui64", EmberEUI64), Field("keyData", EmberKeyData),
       Field("incomingFrameCounter", uint32_t), Field("countdownTimerMs", uint32_t) >>

EmberAesMmoHashContext ==
    << Field("result", fixed_list(16, uint8_t)), Field("length", uint32_t) >>

EmberNeighborTableEntry ==
    << Field("shortId", EmberNodeId), Field("averageLqi", uint8_t),
       Field("inCost", uint8_t), Field("outCost", uint8_t),
       Field("age", uint8_t), Field("longId", EmberEUI64) >>

EmberRouteTableEntry ==
    << Field("destination", EmberNodeId), Field("nextHop", uint16_t),
       Field("status", uint8_t), Field("age", uint8_t),
       Field("concentratorType", uint8_t), Field("routeRecordState", uint8_t) >>

EmberInitialSecurityState ==
    << Field("bitmask", EmberInitialSecurityBitmask),
       Field("preconfiguredKey", EmberKeyData), Field("networkKey", EmberKeyData),
       Field("networkKeySequenceNumber", uint8_t),
       Field("preconfiguredTrustCenterEui64", EmberEUI64) >>

EmberCurrentSecurityState ==
    << Field("bitmask", EmberCurrentSecurityBitmask),
       Field("trustCenterLongAddress", EmberEUI64) >>

EmberZllSecurityAlgorithmData ==
    << Field("transactionId", uint32_t), Field("responseId", uint32_t),
       Field("bitmask", uint16_t) >>

\* (mutant of EmberZllNetwork: the two nested records declared in the other order)
EmberZllNetwork_Swapped ==
    << Field("securityAlgorithm", Composite("EmberZllSecurityAlgorithmData")),
       Field("zigbeeNetwork", Composite("EmberZigbeeNetwork")),
       Field("eui64", EmberEUI64), Field("nodeId", EmberNodeId),
       Field("state", EmberZllState), Field("nodeType", EmberNodeType),
       Field("numberSubDevices", uint8_t), Field("totalGroupIdentifiers", uint8_t),
       Field("rssiCorrection", uint8_t) >>

EmberZllNetwork ==
    << Field("zigbeeNetwork", Composite("EmberZigbeeNetwork")),
       Field("securityAlgorithm", Composite("EmberZllSecurityAlgorithmData")),
       Field("eui64", EmberEUI64), Field("nodeId", EmberNodeId),
       Field("state", EmberZllState), Field("nodeType", EmberNodeType),
       Field("numberSubDevices", uint8_t), Field("totalGroupIdentifiers", uint8_t),
       Field("rssiCorrection", uint8_t) >>

EmberZllInitialSecurityState ==
    << Field("bitmask", uint32_t), Field("keyIndex", EmberZllKeyIndex),
       Field("encryptionKey", EmberKeyData), Field("preconfiguredKey", EmberKeyData) >>

EmberZllDeviceInfoRecord ==
    << Field("ieeeAddress", EmberEUI64), Field("endpointId", uint8_t),
       Field("profileId", uint16_t), Field("deviceId", uint16_t),
       Field("version", uint8_t), Field("groupIdCount", uint8_t) >>

EmberZllAddressAssignment ==
    << Field("nodeId", EmberNodeId), Field("freeNodeIdMin", EmberNodeId),
       Field("freeNodeIdMax", EmberNodeId), Field("groupIdMin", EmberMulticastId),
       Field("groupIdMax", EmberMulticastId), Field("freeGroupIdMin", EmberMulticastId),
       Field("freeGroupIdMax", EmberMulticastId) >>

EmberTokenData ==
    << Field("size", uint32_t), Field("data", uint8_t) >>

EmberTokenInfo ==
    << Field("nvm3Key", NV3KeyId), Field("isCnt", Bool), Field("isIdx", Bool),
       Field("size", uint8_t), Field("arraySize", uint8_t) >>

\* (mutant of EmberTokTypeStackZllData: freeNodeIdMin declared as a 32-bit field)
EmberTokTypeStackZllData_Wide ==
    << Field("bitmask", uint32_t), Field("freeNodeIdMin", uint32_t),
       Field("freeNodeIdMax", uint16_t), Field("myGroupIdMin", uint16_t),
       Field("freeGroupIdMin", uint16_t), Field("freeGroupIdMax", uint16_t),
       Field("rssiCorrection", uint8_t) >>

EmberTokTypeStackZllData ==
    << Field("bitmask", uint32_t), Field("freeNodeIdMin", uint16_t),
       Field("freeNodeIdMax", uint16_t), Field("myGroupIdMin", uint16_t),
       Field("freeGroupIdMin", uint16_t), Field("freeGroupIdMax", uint16_t),
       Field("rssiCorrection", uint8_t) >>

EmberTokTypeStackZllSecurity ==
    << Field("bitmask", uint32_t), Field("keyIndex", uint8_t),
       Field("encryptionKey", EmberKeyData), Field("preconfiguredKey", EmberKeyData) >>

EmberGpAddress ==
    << Field("gpdIeeeAddress", EmberEUI64), Field("sourceId", uint32_t),
       Field("applicationId", uint8_t), Field("endpoint", uint8_t) >>

NV3StackTrustCenterToken ==
    << Field("mode", uint16_t), Field("eui64", EmberEUI64), Field("key", EmberKeyData) >>

RecordTypes ==
    { "EmberNetworkParameters", "EmberZigbeeNetwork", "EmberApsFrame",
      "EmberBindingTableEntry", "EmberMulticastTableEntry", "EmberTransientKeyData",
      "EmberAesMmoHashContext", "EmberNeighborTableEntry", "EmberRouteTableEntry",
      "EmberInitialSecurityState", "EmberCurrentSecurityState",
      "EmberZllSecurityAlgorithmData", "EmberZllNetwork", "EmberZllInitialSecurityState",
      "EmberZllDeviceInfoRecord", "EmberZllAddressAssignment", "EmberTokenData",
      "EmberTokenInfo", "EmberTokTypeStackZllData", "EmberTokTypeStackZllSecurity",
      "EmberGpAddress", "NV3StackTrustCenterToken" }

\* the field schema of a record type of the catalog
Fields(n) ==
    CASE n = "EmberNetworkParameters" -> EmberNetworkParameters
      [] n = "EmberZigbeeNetwork" -> EmberZigbeeNetwork
      [] n = "EmberApsFrame" -> EmberApsFrame
      [] n = "EmberBindingTableEntry" -> EmberBindingTableEntry
      [] n = "EmberMulticastTableEntry" -> EmberMulticastTableEntry
      [] n = "EmberTransientKeyData" -> EmberTransientKeyData
      [] n = "EmberAesMmoHashContext" -> EmberAesMmoHashContext
      [] n = "EmberNeighborTableEntry" -> EmberNeighborTableEntry
      [] n = "EmberRouteTableEntry" -> EmberRouteTableEntry
      [] n = "EmberInitialSecurityState" -> EmberInitialSecurityState
      [] n = "EmberCurrentSecurityState" -> EmberCurrentSecurityState
      [] n = "EmberZllSecurityAlgorithmData" -> EmberZllSecurityAlgorithmData
      [] n = "EmberZllNetwork" -> EmberZllNetwork
      [] n = "EmberZllInitialSecurityState" -> EmberZllInitialSecurityState
      [] n = "EmberZllDeviceInfoRecord" -> EmberZllDeviceInfoRecord
      [] n = "EmberZllAddressAssignment" -> EmberZllAddressAssignment
      [] n = "EmberTokenData" -> EmberTokenData
      [] n = "EmberTokenInfo" -> EmberTokenInfo
      [] n = "EmberTokTypeStackZllData" -> EmberTokTypeStackZllData
      [] n = "EmberTokTypeStackZllSecurity" -> EmberTokTypeStackZllSecurity
      [] n = "EmberGpAddress" -> EmberGpAddress
      [] n = "NV3StackTrustCenterToken" -> NV3StackTrustCenterToken

FieldNames(fields) == { fields[k].name : k \in 1..Len(fields) }
FieldIndex(fields, n) == CHOOSE k \in 1..Len(fields) : fields[k].name = n

(***************************************************************************)
(* The codec engine (zigpy.types.Struct and the basic types, specified in  *)
(* sections 4.1 to 4.3 of the specification).                              *)
(***************************************************************************)
Pow256(k) == IF k = 0 THEN 1 ELSE IF k = 1 THEN 256 ELSE IF k = 2 THEN 65536 ELSE 16777216

IsInt(t) == t.kind \in {"uint", "enum", "bitmask"}

\* encodedWidth(): the number of bytes a field type takes on the wire
RECURSIVE encodedWidth(_), FieldsWidth(_, _)
encodedWidth(t) ==
    CASE t.kind = "array" -> t.len * encodedWidth(t.elem)
      [] t.kind = "struct" -> FieldsWidth(Fields(t.name), 1)
      [] OTHER -> t.width

FieldsWidth(fields, i) ==
    IF i > Len(fields) THEN 0
    ELSE encodedWidth(fields[i].type) + FieldsWidth(fields, i + 1)

\* an unsigned integer as width bytes, least significant byte first
LittleEndian(v, w) == [j \in 1..w |-> (v \div Pow256(j - 1)) % 256]

\* the unsigned integer held by a little-endian byte sequence
RECURSIVE FromLittleEndian(_)
FromLittleEndian(bytes) ==
    IF bytes = <<>> THEN 0 ELSE Head(bytes) + 256 * FromLittleEndian(Tail(bytes))

\* the domain of a field type: the values encode accepts
RECURSIVE InDomain(_, _), FieldsInDomain(_, _, _)
InDomain(t, v) ==
    CASE IsInt(t) -> v \in Nat /\ v \div Pow256(t.width - 1) < 256
      [] t.kind = "bool" -> v \in BOOLEAN
      [] t.kind = "array" ->
            /\ DOMAIN v = 1..t.len
            /\ \A k \in 1..t.len : InDomain(t.elem, v[k])
      [] t.kind = "struct" ->
            /\ DOMAIN v = FieldNames(Fields(t.name))
            /\ FieldsInDomain(Fields(t.name), v, 1)

FieldsInDomain(fields, v, i) ==
    IF i > Len(fields) THEN TRUE
    ELSE InDomain(fields[i].type, v[fields[i].name]) /\ FieldsInDomain(fields, v, i + 1)

\* encode: a value of a field type to bytes; a record is the concatenation of
\* its fields' encodings in declaration order, an array that of its elements
RECURSIVE EncodeType(_, _), EncodeFields(_, _, _), EncodeElems(_, _, _)
EncodeType(t, v) ==
    CASE IsInt(t) -> LittleEndian(v, t.width)
      [] t.kind = "bool" -> << IF v THEN 1 ELSE 0 >>
      [] t.kind = "array" -> EncodeElems(t, v, 1)
      [] t.kind = "struct" -> EncodeFields(Fields(t.name), v, 1)

EncodeElems(t, v, k) ==
    IF k > t.len THEN <<>>
    ELSE EncodeType(t.elem, v[k]) \o EncodeElems(t, v, k + 1)

EncodeFields(fields, v, i) ==
    IF i > Len(fields) THEN <<>>
    ELSE EncodeType(fields[i].type, v[fields[i].name]) \o EncodeFields(fields, v, i + 1)

encode(n, v) == EncodeType(Composite(n), v)

\* decode results: next is the cursor, the number of bytes consumed so far
Decoded(v, next) == [status |-> "ok", value |-> v, next |-> next]
TruncatedInput(off) == [status |-> "TruncatedInput", value |-> None, next |-> off]

\* (mutant of DecodeInt: the value is read from the first byte alone)
DecodeInt_FirstByte(t, data, off) ==
    IF off + t.width > Len(data) THEN TruncatedInput(off)
    ELSE Decoded(IF t.kind = "bool" THEN data[off + 1] # 0 ELSE data[off + 1],
                 off + t.width)

\* decode one integer or boolean of t.width bytes at the cursor
DecodeInt(t, data, off) ==
    IF off + t.width > Len(data) THEN TruncatedInput(off)
    ELSE Decoded(IF t.kind = "bool"
                 THEN FromLittleEndian(SubSeq(data, off + 1, off + t.width)) # 0
                 ELSE FromLittleEndian(SubSeq(data, off + 1, off + t.width)),
                 off + t.width)

\* decode: a value of a field type from data at cursor off; fields and
\* elements are read in order, each from where the previous one ended
RECURSIVE DecodeType(_, _, _), DecodeFields(_, _, _, _, _), DecodeElems(_, _, _, _, _)
DecodeType(t, data, off) ==
    CASE t.kind = "array" -> DecodeElems(t, data, off, 1, <<>>)
      [] t.kind = "struct" -> DecodeFields(Fields(t.name), data, off, 1, <<>>)
      [] OTHER -> DecodeInt(t, data, off)

DecodeElems(t, data, off, k, acc) ==
    IF k > t.len THEN Decoded(acc, off)
    ELSE LET r == DecodeType(t.elem, data, off)
         IN  IF r.status # "ok" THEN TruncatedInput(off)
             ELSE DecodeElems(t, data, r.next, k + 1, Append(acc, r.value))

DecodeFields(fields, data, off, i, acc) ==
    IF i > Len(fields)
    THEN Decoded([n \in FieldNames(fields) |-> acc[FieldIndex(fields, n)]], off)
    ELSE LET r == DecodeType(fields[i].type, data, off)
         IN  IF r.status # "ok" THEN TruncatedInput(off)
             ELSE DecodeFields(fields, data, r.next, i + 1, Append(acc, r.value))

decode(data, n) == DecodeType(Composite(n), data, 0)

\* the cursor after each top-level field of record type n, decoding data
RECURSIVE Cursors(_, _, _, _)
Cursors(fields, data, off, i) ==
    IF i > Len(fields) THEN <<>>
    ELSE LET r == DecodeType(fields[i].type, data, off)
         IN  IF r.status # "ok" THEN <<>>
             ELSE <<r.next>> \o Cursors(fields, data, r.next, i + 1)

(***************************************************************************)
(* Inputs of the codec: record values sampled from every field's domain,   *)
(* and raw buffers.  Pattern 0 is the least value of every field, pattern  *)
(* 1 the greatest one the model checker's integers hold (2^31 - 1 for the  *)
(* 32-bit types), the others fill every byte with a value that depends on  *)
(* the pattern, the field's position and the byte's position.              *)
(***************************************************************************)
PatternByte(p, i, j) == (p * 16 + i * 5 + j) % 128

RECURSIVE PatternInt(_, _, _, _)
PatternInt(p, i, w, j) ==
    IF j > w THEN 0 ELSE PatternByte(p, i, j) * Pow256(j - 1) + PatternInt(p, i, w, j + 1)

MaxInt(w) == IF w = 4 THEN 2147483647 ELSE Pow256(w) - 1

RECURSIVE SampleType(_, _, _)
SampleType(t, p, i) ==
    CASE IsInt(t) -> IF p = 0 THEN 0 ELSE IF p = 1 THEN MaxInt(t.width)
                     ELSE PatternInt(p, i, t.width, 1)
      [] t.kind = "bool" -> IF p = 0 THEN FALSE ELSE IF p = 1 THEN TRUE
                            ELSE PatternByte(p, i, 1) % 2 = 1
      [] t.kind = "array" -> [k \in 1..t.len |-> SampleType(t.elem, p, 8 * i + k)]
      [] t.kind = "struct" ->
            LET fields == Fields(t.name)
            IN  [n \in FieldNames(fields) |->
                    SampleType(fields[FieldIndex(fields, n)].type, p,
                               8 * i + FieldIndex(fields, n))]

\* the value of record type n with pattern p in every field but field hot
\* (0 for none), which holds the next pattern
SampleRecord(n, p, hot) ==
    LET fields == Fields(n)
    IN  [f \in FieldNames(fields) |->
            LET k == FieldIndex(fields, f)
            IN  SampleType(fields[k].type,
                           IF k = hot THEN (p + 1) % NumPatterns ELSE p, k)]

\* a raw buffer of len bytes as the transport may deliver it
RawBuffer(p, len) == [j \in 1..len |-> PatternByte(p, len, j)]

NoResult == [status |-> None, value |-> None, next |-> 0, cursors |-> <<>>]

(***************************************************************************)
(* Codec operations.                                                       *)
(***************************************************************************)
CodecIdle ==
    /\ phase = "idle" /\ rtype = None /\ value = None
    /\ encoding = <<>> /\ wire = <<>> /\ decoded = NoResult

\* encode(record): the caller builds a value of a record type and encodes it;
\* the buffer may hold further bytes after the record
Encode ==
    /\ phase = "idle"
    /\ \E n \in RecordTypes, p \in 0..(NumPatterns - 1), trail \in 0..MaxTrail :
         \E hot \in 0..Len(Fields(n)) :
            LET v == SampleRecord(n, p, hot)
            IN  /\ InDomain(Composite(n), v)
                /\ rtype' = n
                /\ value' = v
                /\ encoding' = encode(n, v)
                /\ wire' = encode(n, v) \o RawBuffer(p, trail)
    /\ phase' = "encoded"
    /\ UNCHANGED <<decoded, maskVars, textVars, appVars, tcVars>>

\* the transport cuts the encoded record short
Truncate ==
    /\ phase = "encoded"
    /\ Len(wire) = Len(encoding)
    /\ \E k \in 0..(Len(encoding) - 1) : wire' = SubSeq(encoding, 1, k)
    /\ phase' = "received"
    /\ UNCHANGED <<rtype, value, encoding, decoded, maskVars, textVars, appVars, tcVars>>

\* the transport delivers a raw buffer and the caller names the record type
\* it expects
Receive ==
    /\ phase = "idle"
    /\ \E n \in RecordTypes, p \in 0..(NumPatterns - 1), len \in 0..MaxBuf :
         /\ rtype' = n
         /\ wire' = RawBuffer(p, len)
    /\ phase' = "received"
    /\ UNCHANGED <<value, encoding, decoded, maskVars, textVars, appVars, tcVars>>

\* decode(bytes, recordType)
Decode ==
    /\ phase \in {"encoded", "received"}
    /\ LET r == decode(wire, rtype)
       IN  decoded' = [status |-> r.status, value |-> r.value, next |-> r.next,
                       cursors |-> Cursors(Fields(rtype), wire, 0, 1)]
    /\ phase' = IF phase = "encoded" THEN "roundtrip" ELSE "decoded"
    /\ UNCHANGED <<rtype, value, encoding, wire, maskVars, textVars, appVars, tcVars>>

MaskIdle == channels = <<>> /\ maskResult = [status |-> None, mask |-> None]
TextIdle ==
    /\ text = <<>> /\ edits = 0
    /\ nodeResult = [status |-> None, value |-> None]
    /\ epanResult = [status |-> None, value |-> None]
AppIdle ==
    /\ pc = "idle" /\ application = 0 /\ runs = 0 /\ trace = <<>>
    /\ pending = [at |-> None, kind |-> None]
    /\ outcome = [state |-> "idle", exc |-> [at |-> None, kind |-> None]]

TcIdle ==
    /\ tcPc = "idle" /\ helper = "none" /\ step = 0
    /\ frames = <<>> /\ tcOutcome = "none" /\ calls = 0

InitCodec == CodecIdle /\ MaskIdle /\ TextIdle /\ AppIdle /\ TcIdle
NextCodec == Encode \/ Truncate \/ Receive \/ Decode
SpecCodec == InitCodec /\ [][NextCodec]_vars

(***************************************************************************)
(* Claims about the record codec.                                          *)
(***************************************************************************)
\* the encoded length of every record type, summed by hand from the widths
\* of the fields struct.py declares
ExpectedLength(n) ==
    CASE n = "EmberNetworkParameters" -> 8 + 2 + 1 + 1 + 1 + 2 + 1 + 4
      [] n = "EmberZigbeeNetwork" -> 1 + 2 + 8 + 1 + 1 + 1
      [] n = "EmberApsFrame" -> 2 + 2 + 1 + 1 + 2 + 2 + 1
      [] n = "EmberBindingTableEntry" -> 1 + 1 + 2 + 1 + 8 + 1
      [] n = "EmberMulticastTableEntry" -> 2 + 1 + 1
      [] n = "EmberTransientKeyData" -> 8 + 16 + 4 + 4
      [] n = "EmberAesMmoHashContext" -> 16 + 4
      [] n = "EmberNeighborTableEntry" -> 2 + 1 + 1 + 1 + 1 + 8
      [] n = "EmberRouteTableEntry" -> 2 + 2 + 1 + 1 + 1 + 1
      [] n = "EmberInitialSecurityState" -> 2 + 16 + 16 + 1 + 8
      [] n = "EmberCurrentSecurityState" -> 2 + 8
      [] n = "EmberZllSecurityAlgorithmData" -> 4 + 4 + 2
      [] n = "EmberZllNetwork" -> 14 + 10 + 8 + 2 + 2 + 1 + 1 + 1 + 1
      [] n = "EmberZllInitialSecurityState" -> 4 + 1 + 16 + 16
      [] n = "EmberZllDeviceInfoRecord" -> 8 + 1 + 2 + 2 + 1 + 1
      [] n = "EmberZllAddressAssignment" -> 2 + 2 + 2 + 2 + 2 + 2 + 2
      [] n = "EmberTokenData" -> 4 + 1
      [] n = "EmberTokenInfo" -> 4 + 1 + 1 + 1 + 1
      [] n = "EmberTokTypeStackZllData" -> 4 + 2 + 2 + 2 + 2 + 2 + 1
      [] n = "EmberTokTypeStackZllSecurity" -> 4 + 1 + 16 + 16
      [] n = "EmberGpAddress" -> 8 + 4 + 1 + 1
      [] n = "NV3StackTrustCenterToken" -> 2 + 8 + 16

Encoded == phase \in {"encoded", "roundtrip"}

\* C1: round trip.  For every record type of the catalog and every value
\* whose fields lie in their types' domains, decoding the encoding yields an
\* equal value and consumes exactly the bytes of the encoding, also when
\* further bytes follow the record in the buffer.
C1_RoundTrip ==
    phase = "roundtrip" =>
        /\ decoded.status = "ok"
        /\ decoded.value = value
        /\ decoded.next = Len(encoding)

C1_Witness ==
    /\ phase = "roundtrip"
    /\ rtype = "EmberNetworkParameters"
    /\ Len(wire) > Len(encoding)
    /\ value.panId = 65535
    /\ value.channels = 0
    /\ decoded.value = value

\* C2: deterministic length.  The encoding of every value of a record type
\* is as long as the sum of the widths of the type's declared fields: 20
\* bytes for EmberAesMmoHashContext, 10 for EmberZllSecurityAlgorithmData,
\* 15 for EmberTokTypeStackZllData, and so on for every type of the catalog.
C2_DeterministicLength ==
    Encoded =>
        /\ Len(encoding) = ExpectedLength(rtype)
        /\ Len(encoding) = encodedWidth(Composite(rtype))
        /\ rtype = "EmberAesMmoHashContext" => Len(encoding) = 20
        /\ rtype = "EmberZllSecurityAlgorithmData" => Len(encoding) = 10
        /\ rtype = "EmberTokTypeStackZllData" => Len(encoding) = 15

C2_Witness ==
    /\ phase = "encoded"
    /\ rtype = "EmberTokTypeStackZllData"
    /\ value.bitmask = 2147483647
    /\ value.rssiCorrection = 0
    /\ Len(encoding) = 15

\* the number of bytes the first i fields of a schema take
RECURSIVE WidthBefore(_, _)
WidthBefore(fields, i) ==
    IF i = 0 THEN 0 ELSE WidthBefore(fields, i - 1) + encodedWidth(fields[i].type)

\* C3: wire order is declaration order.  Every field's encoding lies in the
\* record's encoding right after the encodings of the fields declared before
\* it; EmberApsFrame is profileId, clusterId, sourceEndpoint,
\* destinationEndpoint, options, groupId, sequence (2, 2, 1, 1, 2, 2, 1
\* bytes) and EmberBindingTableEntry is type, local, clusterId, remote,
\* identifier, networkIndex; decode reads the fields in the same order and
\* its cursor only advances.
C3_WireOrder ==
    Encoded =>
        LET fields == Fields(rtype)
        IN  /\ \A i \in 1..Len(fields) :
                 SubSeq(encoding, WidthBefore(fields, i - 1) + 1, WidthBefore(fields, i))
                   = EncodeType(fields[i].type, value[fields[i].name])
            /\ rtype = "EmberApsFrame" =>
                 /\ SubSeq(encoding, 1, 2) = LittleEndian(value.profileId, 2)
                 /\ SubSeq(encoding, 3, 4) = LittleEndian(value.clusterId, 2)
                 /\ SubSeq(encoding, 5, 5) = <<value.sourceEndpoint>>
                 /\ SubSeq(encoding, 6, 6) = <<value.destinationEndpoint>>
                 /\ SubSeq(encoding, 7, 8) = LittleEndian(value.options, 2)
                 /\ SubSeq(encoding, 9, 10) = LittleEndian(value.groupId, 2)
                 /\ SubSeq(encoding, 11, 11) = <<value.sequence>>
            /\ rtype = "EmberBindingTableEntry" =>
                 /\ SubSeq(encoding, 1, 1) = <<value.type>>
                 /\ SubSeq(encoding, 2, 2) = <<value.local>>
                 /\ SubSeq(encoding, 3, 4) = LittleEndian(value.clusterId, 2)
                 /\ SubSeq(encoding, 5, 5) = <<value.remote>>
                 /\ SubSeq(encoding, 6, 13) = value.identifier
                 /\ SubSeq(encoding, 14, 14) = <<value.networkIndex>>
            /\ phase = "roundtrip" =>
                 /\ Len(decoded.cursors) = Len(fields)
                 /\ \A i \in 1..Len(fields) :
                      /\ decoded.cursors[i] = WidthBefore(fields, i)
                      /\ decoded.cursors[i] > (IF i = 1 THEN 0 ELSE decoded.cursors[i - 1])

C3_Witness ==
    /\ phase = "roundtrip"
    /\ rtype = "EmberApsFrame"
    /\ value.profileId # value.clusterId
    /\ value.options # value.groupId
    /\ decoded.cursors = <<2, 4, 5, 6, 8, 10, 11>>

\* C4: truncation detection.  Decoding a buffer that is shorter than the
\* record type's encoded length, whatever the length from 0 up to one byte
\* short, fails with TruncatedInput and yields no record.
C4_TruncationDetected ==
    (phase = "decoded" /\ Len(wire) < ExpectedLength(rtype)) =>
        /\ decoded.status = "TruncatedInput"
        /\ decoded.value = None

C4_Witness ==
    /\ phase = "decoded"
    /\ rtype = "EmberZllNetwork"
    /\ Len(encoding) = 40
    /\ Len(wire) = 19
    /\ decoded.status = "TruncatedInput"

\* C5: nested composite.  EmberZllNetwork round-trips; its encoding is as
\* long as the encodings of its two nested records plus the 16 bytes of its
\* other fields, and each nested record fills one block at its field's
\* position, encoded as its record type encodes on its own.
C5_NestedComposite ==
    (Encoded /\ rtype = "EmberZllNetwork") =>
        LET inner1 == encode("EmberZigbeeNetwork", value.zigbeeNetwork)
            inner2 == encode("EmberZllSecurityAlgorithmData", value.securityAlgorithm)
        IN  /\ Len(encoding) = Len(inner1) + Len(inner2) + 8 + 2 + 2 + 1 + 1 + 1 + 1
            /\ SubSeq(encoding, 1, Len(inner1)) = inner1
            /\ SubSeq(encoding, Len(inner1) + 1, Len(inner1) + Len(inner2)) = inner2
            /\ phase = "roundtrip" =>
                 /\ decoded.status = "ok"
                 /\ decoded.value = value
                 /\ decoded.value.zigbeeNetwork = decode(inner1, "EmberZigbeeNetwork").value
                 /\ decoded.value.securityAlgorithm
                      = decode(inner2, "EmberZllSecurityAlgorithmData").value

C5_Witness ==
    /\ phase = "roundtrip"
    /\ rtype = "EmberZllNetwork"
    /\ value.zigbeeNetwork.panId # 0
    /\ value.securityAlgorithm.bitmask # value.zigbeeNetwork.panId
    /\ Len(encoding) = 40
    /\ decoded.value.zigbeeNetwork = value.zigbeeNetwork

(***************************************************************************)
(* channel_mask (bellows/cli/util.py).                                     *)
(***************************************************************************)
\* longest channel list handed to channel_mask
MaxChannels == 3
\* how far below 11 and above 26 the channel numbers of the inputs reach
Margin == 2

ChannelInputs == (11 - Margin)..(26 + Margin)

RECURSIVE Pow2(_)
Pow2(k) == IF k = 0 THEN 1 ELSE 2 * Pow2(k - 1)

\* a | b on unbounded non-negative integers
RECURSIVE BitOr(_, _)
BitOr(a, b) ==
    IF a = 0 THEN b
    ELSE IF b = 0 THEN a
    ELSE (IF a % 2 = 1 \/ b % 2 = 1 THEN 1 ELSE 0) + 2 * BitOr(a \div 2, b \div 2)

\* (mutant of InRange: the upper limit is off by one)
InRange_OffByOne(channel) == 11 <= channel /\ channel <= 27

\* 11 <= channel <= 26
InRange(channel) == 11 <= channel /\ channel <= 26

\* (mutant of SetBit: the bit is added, not or-ed)
SetBit_Add(mask, channel) == mask + Pow2(channel)

\* mask |= 1 << channel
SetBit(mask, channel) == BitOr(mask, Pow2(channel))

\* the for loop of channel_mask from the i-th channel on
RECURSIVE MaskLoop(_, _, _)
MaskLoop(chans, i, mask) ==
    IF i > Len(chans) THEN [status |-> "ok", mask |-> mask]
    ELSE IF ~InRange(chans[i]) THEN [status |-> "BadOptionUsage", mask |-> None]
    ELSE MaskLoop(chans, i + 1, SetBit(mask, chans[i]))

channel_mask(chans) == MaskLoop(chans, 1, 0)

NoMask == [status |-> None, mask |-> None]

\* the user lists one more channel
AddChannel ==
    /\ maskResult = NoMask
    /\ Len(channels) < MaxChannels
    /\ \E c \in ChannelInputs : channels' = Append(channels, c)
    /\ UNCHANGED <<maskResult, codecVars, textVars, appVars, tcVars>>

\* channel_mask(channels) is called
CallChannelMask ==
    /\ maskResult = NoMask
    /\ maskResult' = channel_mask(channels)
    /\ UNCHANGED <<channels, codecVars, textVars, appVars, tcVars>>

InitMask == CodecIdle /\ MaskIdle /\ TextIdle /\ AppIdle /\ TcIdle
NextMask == AddChannel \/ CallChannelMask
SpecMask == InitMask /\ [][NextMask]_vars

RECURSIVE SumPow2(_)
SumPow2(S) ==
    IF S = {} THEN 0
    ELSE LET c == CHOOSE x \in S : TRUE IN Pow2(c) + SumPow2(S \ {c})

ChannelSet == { channels[i] : i \in 1..Len(channels) }

\* C6: channel mask value.  When every channel lies in 11..26, channel_mask
\* returns the integer whose set bits are exactly the positions of the
\* channels given, whatever their order and however often each is repeated;
\* no channel gives 0 and 11, 12, 26 give 2^11 + 2^12 + 2^26.
C6_ChannelMaskValue ==
    (maskResult.status # None /\ \A c \in ChannelSet : 11 <= c /\ c <= 26) =>
        /\ maskResult.status = "ok"
        /\ maskResult.mask = SumPow2(ChannelSet)
        /\ channels = <<>> => maskResult.mask = 0
        /\ ChannelSet = {11, 12, 26} => maskResult.mask = 2048 + 4096 + 67108864

C6_Witness ==
    /\ channels = <<26, 11, 26>>
    /\ maskResult.status = "ok"
    /\ maskResult.mask = 67108864 + 2048

\* C7: channel range error.  When any channel, at any position, lies
\* outside 11..26, channel_mask raises its range error (BadOptionUsage in
\* the source) and returns no mask.
C7_ChannelRangeError ==
    (maskResult.status # None /\ \E c \in ChannelSet : c < 11 \/ c > 26) =>
        /\ maskResult.status = "BadOptionUsage"
        /\ maskResult.mask = None

C7_Witness ==
    /\ channels = <<11, 26, 27>>
    /\ maskResult.status = "BadOptionUsage"

(***************************************************************************)
(* The node address parameter type and parse_epan (bellows/cli/util.py).   *)
(* A text is a sequence of one-character strings.                          *)
(***************************************************************************)
\* number of edits the user's text may be away from a well-formed one
MaxEdits == 1
\* longest run of characters one edit removes
MaxCut == 3

HexDigits ==
    << "0", "1", "2", "3", "4", "5", "6", "7", "8", "9",
       "a", "b", "c", "d", "e", "f", "A", "B", "C", "D", "E", "F" >>

IsHex(c) == \E k \in 1..Len(HexDigits) : HexDigits[k] = c

HexVal(c) ==
    LET k == CHOOSE x \in 1..Len(HexDigits) : HexDigits[x] = c
    IN  IF k <= 16 THEN k - 1 ELSE k - 7

\* the characters an edit may put into the text
EditChars == {"0", "f", "A", "g", ":", "-"}

\* the well-formed texts the edits start from
SeedTexts ==
    { << "0", "0", ":", "1", "1", ":", "2", "2", ":", "3", "3", ":",
         "4", "4", ":", "5", "5", ":", "6", "6", ":", "7", "7" >>,
      << "f", "f", ":", "F", "E", ":", "0", "a", ":", "1", "B", ":",
         "c", "3", ":", "D", "4", ":", "e", "5", ":", "9", "8" >>,
      << "0", ":", "1", "f", ":", "2", ":", "A", "b", ":", "4", ":", "5", ":", "6", ":", "F", "F" >> }

\* str.split(":"): the runs of characters between the colons, empty runs kept
RECURSIVE SplitFrom(_, _, _)
SplitFrom(txt, i, cur) ==
    IF i > Len(txt) THEN <<cur>>
    ELSE IF txt[i] = ":" THEN <<cur>> \o SplitFrom(txt, i + 1, <<>>)
    ELSE SplitFrom(txt, i + 1, Append(cur, txt[i]))

Split(txt) == SplitFrom(txt, 1, <<>>)

\* the value of a run of hex digits, kept at 256 once it exceeds 255
RECURSIVE HexNumber(_, _, _)
HexNumber(comp, i, acc) ==
    IF i > Len(comp) THEN acc
    ELSE HexNumber(comp, i + 1,
                   IF 16 * acc + HexVal(comp[i]) > 255 THEN 256
                   ELSE 16 * acc + HexVal(comp[i]))

\* uint8_t(x, 16): an 8-bit unsigned integer from hexadecimal text
uint8_from_hex(comp) ==
    IF comp = <<>> \/ \E i \in 1..Len(comp) : ~IsHex(comp[i])
    THEN [status |-> "FormatError", value |-> None]
    ELSE IF HexNumber(comp, 1, 0) > 255
    THEN [status |-> "RangeError", value |-> None]
    ELSE [status |-> "ok", value |-> HexNumber(comp, 1, 0)]

\* [uint8_t(x, 16) for x in parts]: fails with the first failing part
RECURSIVE ParseParts(_, _, _)
ParseParts(parts, i, acc) ==
    IF i > Len(parts) THEN [status |-> "ok", value |-> acc]
    ELSE LET r == uint8_from_hex(parts[i])
         IN  IF r.status # "ok" THEN r
             ELSE ParseParts(parts, i + 1, Append(acc, r.value))

\* fixed_list(n, uint8_t)(elems): a value of the fixed array type
fixed_list_new(n, elems) ==
    IF Len(elems) # n THEN [status |-> "LengthMismatch", value |-> None]
    ELSE [status |-> "ok", value |-> elems]

\* EmberEUI64.convert(text)
EmberEUI64_convert(txt) ==
    LET r == ParseParts(Split(txt), 1, <<>>)
    IN  IF r.status # "ok" THEN r ELSE fixed_list_new(8, r.value)

\* (mutant of ZigbeeNodeParamType_convert: the length is not checked)
ZigbeeNodeParamType_convert_NoLength(txt) ==
    IF ~(\E i \in 1..Len(txt) : txt[i] = ":")
    THEN [status |-> "BadParameter", value |-> None]
    ELSE EmberEUI64_convert(txt)

\* ZigbeeNodeParamType.convert(value, param, ctx)
ZigbeeNodeParamType_convert(txt) ==
    IF ~(\E i \in 1..Len(txt) : txt[i] = ":") \/ Len(txt) # 23
    THEN [status |-> "BadParameter", value |-> None]
    ELSE EmberEUI64_convert(txt)

\* (mutant of parse_epan: the list is returned as built)
parse_epan_NoFixedList(txt) == ParseParts(Split(txt), 1, <<>>)

\* parse_epan(epan)
parse_epan(txt) ==
    LET epan_list == ParseParts(Split(txt), 1, <<>>)
    IN  IF epan_list.status # "ok" THEN epan_list
        ELSE fixed_list_new(8, epan_list.value)

NoParse == [status |-> None, value |-> None]

Unparsed == nodeResult = NoParse /\ epanResult = NoParse

\* the user types a text
TypeText ==
    /\ text = <<>> /\ Unparsed
    /\ \E seed \in SeedTexts : text' = seed
    /\ UNCHANGED <<edits, nodeResult, epanResult, codecVars, maskVars, appVars, tcVars>>

\* the user overtypes one character
ReplaceChar ==
    /\ text # <<>> /\ Unparsed /\ edits < MaxEdits
    /\ \E i \in 1..Len(text), c \in EditChars : text' = [text EXCEPT ![i] = c]
    /\ edits' = edits + 1
    /\ UNCHANGED <<nodeResult, epanResult, codecVars, maskVars, appVars, tcVars>>

\* the user inserts one character
InsertChar ==
    /\ text # <<>> /\ Unparsed /\ edits < MaxEdits
    /\ \E i \in 0..Len(text), c \in EditChars :
         text' = SubSeq(text, 1, i) \o <<c>> \o SubSeq(text, i + 1, Len(text))
    /\ edits' = edits + 1
    /\ UNCHANGED <<nodeResult, epanResult, codecVars, maskVars, appVars, tcVars>>

\* the user removes a run of characters
DeleteChars ==
    /\ text # <<>> /\ Unparsed /\ edits < MaxEdits
    /\ \E i \in 1..Len(text), n \in 1..MaxCut :
         /\ i + n - 1 <= Len(text)
         /\ text' = SubSeq(text, 1, i - 1) \o SubSeq(text, i + n, Len(text))
    /\ edits' = edits + 1
    /\ UNCHANGED <<nodeResult, epanResult, codecVars, maskVars, appVars, tcVars>>

\* click converts the text of a node argument
ConvertNode ==
    /\ Unparsed
    /\ nodeResult' = ZigbeeNodeParamType_convert(text)
    /\ UNCHANGED <<text, edits, epanResult, codecVars, maskVars, appVars, tcVars>>

\* a command parses the text of an extended PAN ID option
ParseEpan ==
    /\ Unparsed
    /\ epanResult' = parse_epan(text)
    /\ UNCHANGED <<text, edits, nodeResult, codecVars, maskVars, appVars, tcVars>>

InitText == CodecIdle /\ MaskIdle /\ TextIdle /\ AppIdle /\ TcIdle
NextText == TypeText \/ ReplaceChar \/ InsertChar \/ DeleteChars \/ ConvertNode \/ ParseEpan
SpecText == InitText /\ [][NextText]_vars

(***************************************************************************)
(* Claims about the text parsers.                                          *)
(***************************************************************************)
\* a parse that failed: an error of the malformed-text family and no value
Failed(r) ==
    /\ r.status \in {"BadParameter", "FormatError", "RangeError", "LengthMismatch"}
    /\ r.value = None

NumColons(txt) == Cardinality({ i \in 1..Len(txt) : txt[i] = ":" })

HasForeignChar(txt) == \E i \in 1..Len(txt) : txt[i] # ":" /\ ~IsHex(txt[i])

\* eight hex pairs separated by seven colons
IsCanonical(txt) ==
    /\ Len(txt) = 23
    /\ \A i \in 1..23 : IF i % 3 = 0 THEN txt[i] = ":" ELSE IsHex(txt[i])

\* the canonical layout but for separators that are not colons
SomeSeparatorsWrong(txt) ==
    /\ Len(txt) = 23
    /\ \A i \in 1..23 : i % 3 # 0 => IsHex(txt[i])
    /\ \E k \in 1..7 : txt[3 * k] # ":"

\* C8: address format validation.  ZigbeeNodeParamType.convert accepts the
\* canonical text of eight hex pairs separated by seven colons and yields
\* its eight bytes; it fails with a format error and yields no address when
\* the text is not 23 characters long, holds a character that is neither a
\* hex digit nor a colon, does not hold exactly seven colons, or has the
\* canonical layout with some separators that are not colons.
C8_AddressFormat ==
    nodeResult.status # None =>
        /\ IsCanonical(text) =>
             /\ nodeResult.status = "ok"
             /\ nodeResult.value =
                  [k \in 1..8 |-> 16 * HexVal(text[3 * k - 2]) + HexVal(text[3 * k - 1])]
        /\ ( \/ Len(text) # 23
             \/ HasForeignChar(text)
             \/ NumColons(text) # 7
             \/ SomeSeparatorsWrong(text) ) => Failed(nodeResult)

C8_Witness ==
    /\ Len(text) = 23
    /\ text[3] = ":"
    /\ text[21] = "-"
    /\ SomeSeparatorsWrong(text)
    /\ nodeResult.status = "FormatError"

\* a component that is hexadecimal text of a value in 0..255
GoodPart(comp) ==
    /\ comp # <<>>
    /\ \A i \in 1..Len(comp) : IsHex(comp[i])
    /\ \A i \in 1..Len(comp) : i <= Len(comp) - 2 => comp[i] = "0"

PartValue(comp) ==
    IF Len(comp) = 1 THEN HexVal(comp[1])
    ELSE 16 * HexVal(comp[Len(comp) - 1]) + HexVal(comp[Len(comp)])

\* C9: extended PAN ID parsing.  parse_epan turns a text of exactly eight
\* colon-separated hex bytes into the 8-element array of those bytes in the
\* order written; with fewer or more than eight components, a component
\* that is not hex or a component above 255 it fails and yields no array:
\* nothing is padded or cut to eight elements.
C9_ParseEpan ==
    epanResult.status # None =>
        LET parts == Split(text)
            wellFormed == /\ NumColons(text) = 7
                          /\ \A k \in 1..Len(parts) : GoodPart(parts[k])
        IN  /\ wellFormed =>
                 /\ epanResult.status = "ok"
                 /\ epanResult.value = [k \in 1..8 |-> PartValue(parts[k])]
            /\ ~wellFormed => Failed(epanResult)
            /\ epanResult.status = "ok" => Len(parts) = 8 /\ Len(epanResult.value) = 8

C9_Witness ==
    /\ NumColons(text) = 8
    /\ \A k \in 1..9 : GoodPart(Split(text)[k])
    /\ epanResult.status = "LengthMismatch"
    /\ epanResult.value = None

(***************************************************************************)
(* The command wrapper app() (bellows/cli/util.py): inner() runs           *)
(* async_inner on the event loop and closes the radio connection in its    *)
(* finally clause.  application is a variable of the enclosing app() call, *)
(* so it outlives one call of inner().                                     *)
(***************************************************************************)
\* number of times the wrapped command is called
MaxRuns == 3

\* the classes of exception an awaited call may raise: an Exception (such as
\* a ClickException) or a BaseException outside Exception (such as
\* KeyboardInterrupt or CancelledError)
ExceptionKinds == {"Exception", "BaseException"}

Exc(at, kind) == [at |-> at, kind |-> kind]
NoExc == Exc(None, None)
Running == [state |-> "running", exc |-> NoExc]
Event(ev, at, kind) == [ev |-> ev, at |-> at, kind |-> kind]

\* (mutant of Caught: except Exception)
Caught_ExceptionOnly(exc) == exc.kind = "Exception"

\* except: a bare except clause catches every exception
Caught(exc) == exc.kind \in ExceptionKinds

\* (mutant of Suppressed: shutdown() without contextlib.suppress)
Suppressed_Nothing(exc) == FALSE

\* contextlib.suppress(Exception)
Suppressed(exc) == exc.kind = "Exception"

\* an exception leaves run_until_complete(async_inner(...)): the except
\* clause takes it if it catches it, else the finally clause runs at once
Raise(at, kind) ==
    /\ pending' = Exc(at, kind)
    /\ trace' = Append(trace, Event("raise", at, kind))
    /\ pc' = IF Caught(Exc(at, kind)) THEN "except_sleep" ELSE "finally"
    /\ UNCHANGED <<application, outcome, runs, codecVars, maskVars, textVars, tcVars>>

\* inner(*args, **kwargs) is called
Call ==
    /\ pc \in {"idle", "done"}
    /\ runs < MaxRuns
    /\ runs' = runs + 1
    /\ pc' = "setup"
    /\ pending' = NoExc
    /\ outcome' = Running
    /\ trace' = <<>>
    /\ UNCHANGED <<application, codecVars, maskVars, textVars, tcVars>>

\* application = await setup_application(app_config, startup=app_startup)
SetupOk ==
    /\ pc = "setup"
    /\ application' = runs
    /\ trace' = Append(trace, Event("ok", "setup_application", None))
    /\ pc' = "command"
    /\ UNCHANGED <<pending, outcome, runs, codecVars, maskVars, textVars, tcVars>>

\* building app_config from ctx.obj raises (a KeyError), or setup_application does
SetupRaises ==
    /\ pc = "setup"
    /\ \/ Raise("app_config", "Exception")
       \/ \E kind \in ExceptionKinds : Raise("setup_application", kind)

\* await f(ctx, *args, **kwargs)
CommandOk ==
    /\ pc = "command"
    /\ trace' = Append(trace, Event("ok", "command", None))
    /\ pc' = "settle"
    /\ UNCHANGED <<application, pending, outcome, runs, codecVars, maskVars, textVars, tcVars>>

CommandRaises ==
    /\ pc = "command"
    /\ \E kind \in ExceptionKinds : Raise("command", kind)

\* await asyncio.sleep(0.5) after the command
Settle ==
    /\ pc = "settle"
    /\ trace' = Append(trace, Event("sleep", "async_inner", None))
    /\ pc' = "app_shutdown"
    /\ UNCHANGED <<application, pending, outcome, runs, codecVars, maskVars, textVars, tcVars>>

\* await application.shutdown()
AppShutdownOk ==
    /\ pc = "app_shutdown"
    /\ trace' = Append(trace, Event("ok", "application.shutdown", None))
    /\ pc' = "finally"
    /\ UNCHANGED <<application, pending, outcome, runs, codecVars, maskVars, textVars, tcVars>>

AppShutdownRaises ==
    /\ pc = "app_shutdown"
    /\ \E kind \in ExceptionKinds : Raise("application.shutdown", kind)

\* except: loop.run_until_complete(asyncio.sleep(0.5)); raise
ExceptSleep ==
    /\ pc = "except_sleep"
    /\ trace' = Append(trace, Event("sleep", "except", None))
    /\ pc' = "finally"
    /\ UNCHANGED <<application, pending, outcome, runs, codecVars, maskVars, textVars, tcVars>>

\* what inner() hands to its caller once shutdown() has run with closeExc
Finish(pend, closeExc) ==
    IF closeExc # NoExc /\ ~Suppressed(closeExc) THEN [state |-> "raised", exc |-> closeExc]
    ELSE IF pend # NoExc THEN [state |-> "raised", exc |-> pend]
    ELSE [state |-> "returned", exc |-> NoExc]

\* finally: shutdown(), that is application._ezsp.close() under
\* contextlib.suppress(Exception); with no application the attribute access
\* raises AttributeError; then inner() returns or the exception propagates
FinallyShutdown ==
    /\ pc = "finally"
    /\ \E closeExc \in {NoExc, Exc("close", "Exception")} :
         /\ application = 0 => closeExc = Exc("close", "Exception")
         /\ trace' = Append(trace,
                Event("close", IF application = 0 THEN "no application" ELSE "_ezsp",
                      closeExc.kind))
         /\ outcome' = Finish(pending, closeExc)
    /\ pc' = "done"
    /\ pending' = NoExc
    /\ UNCHANGED <<application, runs, codecVars, maskVars, textVars, tcVars>>

InitApp == CodecIdle /\ MaskIdle /\ TextIdle /\ AppIdle /\ TcIdle
NextApp ==
    \/ Call
    \/ SetupOk \/ SetupRaises
    \/ CommandOk \/ CommandRaises
    \/ Settle
    \/ AppShutdownOk \/ AppShutdownRaises
    \/ ExceptSleep
    \/ FinallyShutdown
SpecApp == InitApp /\ [][NextApp]_vars

(***************************************************************************)
(* Claims about the command wrapper.                                       *)
(***************************************************************************)
CloseEvents == { i \in 1..Len(trace) : trace[i].ev = "close" }
RaiseEvents == { i \in 1..Len(trace) : trace[i].ev = "raise" }

MaxCalls == 2
\* the greatest plain status code the NCP replies with
MaxStatus == 2

\* t.EmberStatus.NOT_JOINED
NOT_JOINED == 147

\* the status v[0] of a reply
Statuses == (0..MaxStatus) \cup {NOT_JOINED}

\* the expected argument of check: one value (0 by default) or a list
ExpectedValue(v) == [isList |-> FALSE, vals |-> <<v>>]
ExpectedList(l) == [isList |-> TRUE, vals |-> l]

\* (mutant of check: if ret != expected: return; a status never equals a list)
check_Inverted(ret, expected) ==
    IF expected.isList THEN TRUE ELSE ret # expected.vals[1]

\* check(ret, message, expected): TRUE when it returns, FALSE when it raises
\* click.ClickException(message)
check(ret, expected) ==
    IF ~expected.isList /\ ret = expected.vals[1] THEN TRUE
    ELSE IF expected.isList /\ \E k \in 1..Len(expected.vals) : expected.vals[k] = ret
    THEN TRUE
    ELSE FALSE

\* the set_policy calls of basic_tc_permits, in the order of the source
PolicyCalls ==
    << [policy |-> "TC_KEY_REQUEST_POLICY", decision |-> "DENY_TC_KEY_REQUESTS"],
       [policy |-> "APP_KEY_REQUEST_POLICY", decision |-> "ALLOW_APP_KEY_REQUESTS"],
       [policy |-> "TRUST_CENTER_POLICY", decision |-> "ALLOW_PRECONFIGURED_KEY_JOINS"] >>

\* a request on its way to the NCP; reply is -1 until the reply has arrived
Frame(c, name, policy, decision) ==
    [call |-> c, frame |-> name, policy |-> policy, decision |-> decision,
     reply |-> -1]

SetPolicyFrame(c, k) ==
    Frame(c, "setPolicy", PolicyCalls[k].policy, PolicyCalls[k].decision)

\* the log with the reply of the request that awaits it
Replied(status) == [frames EXCEPT ![Len(frames)].reply = status]

\* network_init(s) is called: v = await s.networkInit()
CallNetworkInit ==
    /\ tcPc \in {"idle", "done", "raised"}
    /\ calls < MaxCalls
    /\ calls' = calls + 1
    /\ helper' = "network_init"
    /\ step' = 0
    /\ frames' = Append(frames, Frame(calls + 1, "networkInit", "none", "none"))
    /\ tcOutcome' = "none"
    /\ tcPc' = "await"
    /\ UNCHANGED <<codecVars, maskVars, textVars, appVars>>

\* the reply of networkInit arrives: check(v[0], ..., [0, NOT_JOINED]); return v
NetworkInitReply ==
    /\ tcPc = "await" /\ helper = "network_init"
    /\ \E status \in Statuses :
         /\ frames' = Replied(status)
         /\ IF check(status, ExpectedList(<<0, NOT_JOINED>>))
            THEN tcPc' = "done" /\ tcOutcome' = "returned"
            ELSE tcPc' = "raised" /\ tcOutcome' = "ClickException"
    /\ UNCHANGED <<helper, step, calls, codecVars, maskVars, textVars, appVars>>

\* basic_tc_permits(s) is called: the first set_policy sends its request
CallBasicTcPermits ==
    /\ tcPc \in {"idle", "done", "raised"}
    /\ calls < MaxCalls
    /\ calls' = calls + 1
    /\ helper' = "basic_tc_permits"
    /\ step' = 1
    /\ frames' = Append(frames, SetPolicyFrame(calls + 1, 1))
    /\ tcOutcome' = "none"
    /\ tcPc' = "await"
    /\ UNCHANGED <<codecVars, maskVars, textVars, appVars>>

\* the reply of setPolicy arrives: check(v[0], ...), expected 0; then the
\* next set_policy sends its request, or basic_tc_permits returns
SetPolicyReply ==
    /\ tcPc = "await" /\ helper = "basic_tc_permits"
    /\ \E status \in Statuses :
         IF ~check(status, ExpectedValue(0))
         THEN /\ frames' = Replied(status)
              /\ tcPc' = "raised" /\ tcOutcome' = "ClickException"
              /\ step' = step
         ELSE IF step < Len(PolicyCalls)
         THEN /\ frames' = Append(Replied(status), SetPolicyFrame(calls, step + 1))
              /\ step' = step + 1
              /\ tcPc' = "await" /\ tcOutcome' = tcOutcome
         ELSE /\ frames' = Replied(status)
              /\ tcPc' = "done" /\ tcOutcome' = "returned"
              /\ step' = step
    /\ UNCHANGED <<helper, calls, codecVars, maskVars, textVars, appVars>>

\* the awaited request raises (no reply in time): the exception leaves the helper
RequestRaises ==
    /\ tcPc = "await"
    /\ tcPc' = "raised"
    /\ tcOutcome' = "TimeoutError"
    /\ UNCHANGED <<helper, step, frames, calls, codecVars, maskVars, textVars, appVars>>

InitTc == CodecIdle /\ MaskIdle /\ TextIdle /\ AppIdle /\ TcIdle
NextTc ==
    \/ CallNetworkInit \/ NetworkInitReply
    \/ CallBasicTcPermits \/ SetPolicyReply
    \/ RequestRaises
SpecTc == InitTc /\ [][NextTc]_vars

(***************************************************************************)
(* Claims about the policy helpers.                                        *)
(***************************************************************************)
\* the setPolicy requests sent by call c, as positions of the log
PolicyFramesOf(c) ==
    { i \in 1..Len(frames) : frames[i].call = c /\ frames[i].frame = "setPolicy" }

\* the position of log entry i among the requests of its call
RankInCall(i) == Cardinality({ j \in 1..i : frames[j].call = frames[i].call })

LastOfCall(i) == i = Len(frames) \/ frames[i + 1].call # frames[i].call

\* C11: basic_tc_permits sends its setPolicy requests strictly in the order
\* TC_KEY_REQUEST_POLICY, APP_KEY_REQUEST_POLICY, TRUST_CENTER_POLICY, each
\* after the first only once the previous reply has arrived with status 0;
\* a reply with another status ends the call with a ClickException and no
\* later policy request of that call is ever sent; check lets a status pass
\* only when it equals the expected value or, for an expected list (the
\* networkInit reply against [0, NOT_JOINED]), is one of its members.
C11_PolicyOrder ==
    /\ \A i \in 1..Len(frames) :
         frames[i].frame = "setPolicy" =>
            /\ RankInCall(i) <= 3
            /\ frames[i].policy =
                 << "TC_KEY_REQUEST_POLICY", "APP_KEY_REQUEST_POLICY",
                    "TRUST_CENTER_POLICY" >>[RankInCall(i)]
            /\ RankInCall(i) > 1 =>
                 /\ frames[i - 1].call = frames[i].call
                 /\ frames[i - 1].reply = 0
            /\ frames[i].reply \notin {0, -1} => LastOfCall(i)
    /\ (Len(frames) > 0 /\ frames[Len(frames)].reply # -1) =>
         LET last == frames[Len(frames)]
         IN  IF last.frame = "setPolicy"
             THEN /\ last.reply # 0 => tcPc = "raised" /\ tcOutcome = "ClickException"
                  /\ last.reply = 0 =>
                       /\ RankInCall(Len(frames)) = 3
                       /\ tcPc = "done" /\ tcOutcome = "returned"
             ELSE /\ last.reply \in {0, NOT_JOINED} =>
                       tcPc = "done" /\ tcOutcome = "returned"
                  /\ last.reply \notin {0, NOT_JOINED} =>
                       tcPc = "raised" /\ tcOutcome = "ClickException"

C11_Witness ==
    /\ calls = 2
    /\ Len(frames) = 5
    /\ PolicyFramesOf(1) = {1, 2, 3}
    /\ \A i \in 1..3 : frames[i].reply = 0
    /\ PolicyFramesOf(2) = {4, 5}
    /\ frames[4].reply = 0
    /\ frames[5].policy = "APP_KEY_REQUEST_POLICY"
    /\ frames[5].reply = NOT_JOINED
    /\ tcOutcome = "ClickException"

====
